---- MODULE Spec2Model ----
(***************************************************************************)
(* A model of codahale/sskg (src/sskg.go, the HKDF variant, lines 126-242):*)
(* a seekable sequential key generator kept as a stack of (secret, height) *)
(* pairs, the frontier of an implicit binary tree of keys.                 *)
(*                                                                         *)
(* Secrets are modelled symbolically: prf(label, s) is the term            *)
(* "label applied to s", so that two secrets are equal exactly when they   *)
(* were derived along the same path (an injective, one-way PRF).           *)
(*                                                                         *)
(* Go's uint/int/float64 values (maxKeys, the argument of Seek) are        *)
(* naturals written as bit strings, least significant bit first, with no   *)
(* leading zero: the conversion float64(maxKeys) and the sum +1 in New     *)
(* round to 53 significant bits as IEEE-754 does.  Heights and stack       *)
(* depths are small and are plain integers.  The model covers              *)
(* maxKeys < 2^62, where neither 1 << h nor n - pow leaves int64.          *)
(*                                                                         *)
(* Spec follows the stack as a value on small trees, SpecBig does so for   *)
(* maxKeys around 2^53, and SpecMem adds the backing arrays of Go's        *)
(* slices, a copy of the Seq and a second Seq made by the same New.        *)
(***************************************************************************)
EXTENDS Integers, Sequences, FiniteSets, TLC

\* ------------------------------------------------------------------ bounds
\* Largest maxKeys given to New in the small-tree specification.
MaxMaxKeys == 8
\* Calls explored after New in the wide-number specification.
MaxBigOps == 2
\* The wide-number specification takes maxKeys around 2^e for e from
\* MantissaBits to MantissaBits + MaxExtraBits.
MaxExtraBits == 1
\* Largest maxKeys given to New in the storage specification.
MaxMemKeys == 4
\* float64 has 53 significant bits.
MantissaBits == 53

Seeds == {"seedA", "seedB"}

\* ------------------------------------------- naturals as bit strings (LSB first)
RECURSIVE Nat2Bits(_)
Nat2Bits(i) == IF i = 0 THEN <<>> ELSE <<i % 2>> \o Nat2Bits(i \div 2)

RECURSIVE Bits2Nat(_)
Bits2Nat(b) == IF b = <<>> THEN 0 ELSE b[1] + 2 * Bits2Nat(Tail(b))

\* Index of the lowest bit of b equal to v.
Lowest(b, v) ==
  CHOOSE i \in 1..Len(b) : b[i] = v /\ \A j \in 1..(i - 1) : b[j] # v

\* b without leading zeros.
Norm(b) ==
  LET set == {i \in 1..Len(b) : b[i] = 1}
  IN  IF set = {} THEN <<>>
      ELSE SubSeq(b, 1, CHOOSE i \in set : \A j \in set : j <= i)

Zeros(m) == [i \in 1..m |-> 0]

BigIsZero(b) == b = <<>>

\* a < b
BigLess(a, b) ==
  \/ Len(a) < Len(b)
  \/ /\ Len(a) = Len(b)
     /\ \E i \in 1..Len(a) :
          /\ a[i] < b[i]
          /\ \A j \in (i + 1)..Len(a) : a[j] = b[j]

\* b + 1
BigInc(b) ==
  IF \A i \in 1..Len(b) : b[i] = 1 THEN Zeros(Len(b)) \o <<1>>
  ELSE LET p == Lowest(b, 0)
       IN  [i \in 1..Len(b) |-> IF i < p THEN 0 ELSE IF i = p THEN 1 ELSE b[i]]

\* b - 1, for b > 0
BigDec(b) ==
  LET p == Lowest(b, 1)
  IN  Norm([i \in 1..Len(b) |-> IF i < p THEN 1 ELSE IF i = p THEN 0 ELSE b[i]])

\* n - (1 << h), for n >= 1 << h
SubPow2(n, h) == Norm(SubSeq(n, 1, h) \o BigDec(SubSeq(n, h + 1, Len(n))))

\* 1 << h
Shl1(h) == Zeros(h) \o <<1>>

IsPow2(b) == b # <<>> /\ \A i \in 1..(Len(b) - 1) : b[i] = 0

\* ------------------------------------------------------------ the PRF (symbolic)
\* prf(alg, size, label, seed): HKDF of the secret under a label.  A secret is
\* the sequence of labels applied to the caller's seed, so distinct derivations
\* give distinct secrets and nothing maps a secret back to its parent.
prf(label, secret) == Append(secret, label)

right == "right"
left == "left"

\* --------------------------------------------------- float64 arithmetic of New
\* An integer rounded to float64: 53 significant bits, round half to even.
Round53(b) ==
  IF Len(b) <= MantissaBits THEN b
  ELSE LET drop   == Len(b) - MantissaBits
           keep   == SubSeq(b, drop + 1, Len(b))
           guard  == b[drop]
           sticky == \E i \in 1..(drop - 1) : b[i] = 1
           up     == guard = 1 /\ (sticky \/ keep[1] = 1)
       IN  Zeros(drop) \o (IF up THEN BigInc(keep) ELSE keep)

\* float64(maxKeys) + 1
Float64Plus1(maxKeys) == Round53(BigInc(Round53(maxKeys)))

\* uint(math.Ceil(math.Log2(y))) of a float64 y >= 1 holding an integer.
\* math.Log2 is exact on a power of two.  On the other y this model reaches
\* (y <= 2 * MaxMaxKeys) its result lies well between two integers, so Ceil
\* gives the bit length.
CeilLog2(y) == IF IsPow2(y) THEN Len(y) - 1 ELSE Len(y)

\* Mutant: the bit length of float64(maxKeys) + 1 (floor(log2) + 1) as height.
NewHeightBitLen(maxKeys) == Len(Float64Plus1(maxKeys))

NewHeight(maxKeys) == CeilLog2(Float64Plus1(maxKeys))

\* ------------------------------------------------------------------ the stack
NoPanic == "none"
Exhausted == "keyspace exhausted"
IndexPanic == "index out of range"

push(stk, k, h) == Append(stk, [k |-> k, h |-> h])

Top(stk) == stk[Len(stk)]

Rest(stk) == SubSeq(stk, 1, Len(stk) - 1)

\* New(alg, seed, maxKeys).nodes
NewNodes(sd, maxKeys) == <<[k |-> prf("seed", <<sd>>), h |-> NewHeight(maxKeys)]>>

\* Key(): the key of the top entry; indexing an empty slice panics.
KeyOp(stk) ==
  IF stk = <<>> THEN [ret |-> <<>>, panic |-> IndexPanic]
  ELSE [ret |-> prf("key", Top(stk).k), panic |-> NoPanic]

\* Mutant: Next() returns quietly when the stack is empty.
NextOpSilent(stk) ==
  IF stk = <<>> THEN [nodes |-> stk, panic |-> NoPanic]
  ELSE IF Top(stk).h > 1
  THEN [nodes |-> push(push(Rest(stk), prf(right, Top(stk).k), Top(stk).h - 1),
                       prf(left, Top(stk).k), Top(stk).h - 1),
        panic |-> NoPanic]
  ELSE [nodes |-> Rest(stk), panic |-> NoPanic]

\* Mutant: Next() pushes the left child first, so the right one is on top.
NextOpSwapped(stk) ==
  IF stk = <<>> THEN [nodes |-> stk, panic |-> IndexPanic]
  ELSE IF Top(stk).h > 1
  THEN [nodes |-> push(push(Rest(stk), prf(left, Top(stk).k), Top(stk).h - 1),
                       prf(right, Top(stk).k), Top(stk).h - 1),
        panic |-> NoPanic]
  ELSE [nodes |-> Rest(stk), panic |-> NoPanic]

\* Mutant: Next() splits leaves too (h > 0 for h > 1).
NextOpSplitsLeaf(stk) ==
  IF stk = <<>> THEN [nodes |-> stk, panic |-> IndexPanic]
  ELSE IF Top(stk).h > 0
  THEN [nodes |-> push(push(Rest(stk), prf(right, Top(stk).k), Top(stk).h - 1),
                       prf(left, Top(stk).k), Top(stk).h - 1),
        panic |-> NoPanic]
  ELSE [nodes |-> Rest(stk), panic |-> NoPanic]

\* Next(): pop, then push the right and the left child of an inner node.
NextOp(stk) ==
  IF stk = <<>> THEN [nodes |-> stk, panic |-> IndexPanic]
  ELSE LET k == Top(stk).k
           h == Top(stk).h
       IN  IF h > 1
           THEN [nodes |-> push(push(Rest(stk), prf(right, k), h - 1),
                                prf(left, k), h - 1),
                 panic |-> NoPanic]
           ELSE [nodes |-> Rest(stk), panic |-> NoPanic]

\* The local state of a running Seek: s.nodes (which keeps every push made
\* before a panic), the locals k, h, n, and whether it has returned or panicked.
SeekState(stk, k, h, n, panic, done) ==
  [stk |-> stk, k |-> k, h |-> h, n |-> n, panic |-> panic, done |-> done]

\* Mutant: the loop body tests n <= pow, so n = pow goes left.
SeekStepLe(s) ==
  IF s.done THEN s
  ELSE IF BigIsZero(s.n)
  THEN SeekState(push(s.stk, s.k, s.h), s.k, s.h, s.n, NoPanic, TRUE)
  ELSE IF s.h - 1 <= 0
  THEN SeekState(s.stk, s.k, s.h - 1, s.n, Exhausted, TRUE)
  ELSE IF BigLess(s.n, BigInc(Shl1(s.h - 1)))
  THEN SeekState(push(s.stk, prf(right, s.k), s.h - 1), prf(left, s.k), s.h - 1,
                 BigDec(s.n), NoPanic, FALSE)
  ELSE SeekState(s.stk, prf(right, s.k), s.h - 1, SubPow2(s.n, s.h - 1),
                 NoPanic, FALSE)

\* Mutant: turning left, the loop body pushes the left child and walks on
\* into the right one (the two labels exchanged).
SeekStepSwapped(s) ==
  IF s.done THEN s
  ELSE IF BigIsZero(s.n)
  THEN SeekState(push(s.stk, s.k, s.h), s.k, s.h, s.n, NoPanic, TRUE)
  ELSE IF s.h - 1 <= 0
  THEN SeekState(s.stk, s.k, s.h - 1, s.n, Exhausted, TRUE)
  ELSE IF BigLess(s.n, Shl1(s.h - 1))
  THEN SeekState(push(s.stk, prf(left, s.k), s.h - 1), prf(right, s.k), s.h - 1,
                 BigDec(s.n), NoPanic, FALSE)
  ELSE SeekState(s.stk, prf(right, s.k), s.h - 1, SubPow2(s.n, s.h - 1),
                 NoPanic, FALSE)

\* Mutant: the final push stores the height decremented once more.
SeekStepPushLower(s) ==
  IF s.done THEN s
  ELSE IF BigIsZero(s.n)
  THEN SeekState(push(s.stk, s.k, s.h - 1), s.k, s.h - 1, s.n, NoPanic, TRUE)
  ELSE IF s.h - 1 <= 0
  THEN SeekState(s.stk, s.k, s.h - 1, s.n, Exhausted, TRUE)
  ELSE IF BigLess(s.n, Shl1(s.h - 1))
  THEN SeekState(push(s.stk, prf(right, s.k), s.h - 1), prf(left, s.k), s.h - 1,
                 BigDec(s.n), NoPanic, FALSE)
  ELSE SeekState(s.stk, prf(right, s.k), s.h - 1, SubPow2(s.n, s.h - 1),
                 NoPanic, FALSE)

\* Mutant: the loop body panics on h < 0 only, one level too late.
SeekStepLateCheck(s) ==
  IF s.done THEN s
  ELSE IF BigIsZero(s.n)
  THEN SeekState(push(s.stk, s.k, s.h), s.k, s.h, s.n, NoPanic, TRUE)
  ELSE IF s.h - 1 < 0
  THEN SeekState(s.stk, s.k, s.h - 1, s.n, Exhausted, TRUE)
  ELSE IF BigLess(s.n, Shl1(s.h - 1))
  THEN SeekState(push(s.stk, prf(right, s.k), s.h - 1), prf(left, s.k), s.h - 1,
                 BigDec(s.n), NoPanic, FALSE)
  ELSE SeekState(s.stk, prf(right, s.k), s.h - 1, SubPow2(s.n, s.h - 1),
                 NoPanic, FALSE)

\* Mutant: turning right, the loop body pushes the left child it skips.
SeekStepKeepsLeft(s) ==
  IF s.done THEN s
  ELSE IF BigIsZero(s.n)
  THEN SeekState(push(s.stk, s.k, s.h), s.k, s.h, s.n, NoPanic, TRUE)
  ELSE IF s.h - 1 <= 0
  THEN SeekState(s.stk, s.k, s.h - 1, s.n, Exhausted, TRUE)
  ELSE IF BigLess(s.n, Shl1(s.h - 1))
  THEN SeekState(push(s.stk, prf(right, s.k), s.h - 1), prf(left, s.k), s.h - 1,
                 BigDec(s.n), NoPanic, FALSE)
  ELSE SeekState(push(s.stk, prf(left, s.k), s.h - 1), prf(right, s.k), s.h - 1,
                 SubPow2(s.n, s.h - 1), NoPanic, FALSE)

\* One pass of Seek from the loop test on: the loop body while n > 0, else
\* the final push and the return.
SeekStep(s) ==
  IF s.done THEN s
  ELSE IF BigIsZero(s.n)
  THEN SeekState(push(s.stk, s.k, s.h), s.k, s.h, s.n, NoPanic, TRUE)
  ELSE LET h1  == s.h - 1
           pow == Shl1(h1)
       IN  IF h1 <= 0
           THEN SeekState(s.stk, s.k, h1, s.n, Exhausted, TRUE)
           ELSE IF BigLess(s.n, pow)
           THEN SeekState(push(s.stk, prf(right, s.k), h1), prf(left, s.k), h1,
                          BigDec(s.n), NoPanic, FALSE)
           ELSE SeekState(s.stk, prf(right, s.k), h1, SubPow2(s.n, h1),
                          NoPanic, FALSE)

\* c passes, one after the other (the first half of them, then the rest).
RECURSIVE SeekRun(_, _)
SeekRun(s, c) ==
  IF c = 0 THEN s
  ELSE IF c = 1 THEN SeekStep(s)
  ELSE CHOOSE r \in {SeekRun(m, c - (c \div 2)) : m \in {SeekRun(s, c \div 2)}} : TRUE

Running == "running"

\* Seek(n), n >= 0: the pop, then the loop until it returns or panics.  The
\* height falls by one in every pass of the body, so Top(stk).h passes and
\* the exit are the most a call makes.
SeekOp(stk, n) ==
  IF stk = <<>> THEN [nodes |-> stk, panic |-> IndexPanic]
  ELSE CHOOSE r \in
         { [nodes |-> s.stk, panic |-> IF s.done THEN s.panic ELSE Running]
           : s \in {SeekRun(SeekState(Rest(stk), Top(stk).k, Top(stk).h, n,
                                      NoPanic, FALSE),
                            Top(stk).h + 1)} }
         : TRUE

\* ------------------------------------------------- Go slices and their arrays
\* A Seq value holds a slice header; the entries live in a backing array that
\* every copy of the header shares.  mem is the sequence of arrays allocated
\* so far (one slot per unit of capacity), a header names its array and its
\* length; s.nodes always starts at slot 1 of its array.
NoSlice == [arr |-> 0, len |-> 0]

\* the zero value of node, in slots never written
ZeroNode == [k |-> <<>>, h |-> 0]

Cap(m, s) == IF s.arr = 0 THEN 0 ELSE Len(m[s.arr])

\* s.nodes read through the header
View(m, s) ==
  IF s.arr = 0 THEN <<>>
  ELSE [i \in 1..s.len |-> IF i <= Cap(m, s) THEN m[s.arr][i] ELSE ZeroNode]

Heap(m, s) == [mem |-> m, hdr |-> s]

\* Mutant: every allocation hands out the first array again (one buffer
\* kept for all sequences).
NewArrReused(m) == 1

\* where an allocation puts its array: in memory no other array has
NewArr(m) == Len(m) + 1

\* mem after allocating an array of the given capacity that holds content
MakeArray(m, content, cap) ==
  LET new == [i \in 1..cap |-> IF i <= Len(content) THEN content[i] ELSE ZeroNode]
      top == IF NewArr(m) > Len(m) THEN NewArr(m) ELSE Len(m)
  IN  [a \in 1..top |-> IF a = NewArr(m) THEN new ELSE m[a]]

\* the capacity append gives a full slice that grows by one element
GrowCap(c) == IF c = 0 THEN 1 ELSE 2 * c

\* s.nodes = append(s.nodes, node{k, h}): in place while capacity lasts
pushH(m, s, e) ==
  IF s.len < Cap(m, s)
  THEN Heap([m EXCEPT ![s.arr][s.len + 1] = e], [s EXCEPT !.len = s.len + 1])
  ELSE Heap(MakeArray(m, Append(View(m, s), e), GrowCap(Cap(m, s))),
            [arr |-> NewArr(m), len |-> s.len + 1])

\* s.nodes = s.nodes[:len(s.nodes)-1]: the array and its slots stay
popH(s) == [s EXCEPT !.len = s.len - 1]

\* New: the slice literal []node{{k, h}} has its own array of capacity 1
NewH(m, sd, maxKeys) ==
  Heap(MakeArray(m, NewNodes(sd, maxKeys), 1), [arr |-> NewArr(m), len |-> 1])

RECURSIVE PushAll(_, _, _)
PushAll(m, s, es) ==
  IF es = <<>> THEN Heap(m, s)
  ELSE LET r == pushH(m, s, Head(es))
       IN  PushAll(r.mem, r.hdr, Tail(es))

\* What a call that takes the stack read through s to the stack new does to
\* the arrays: Next and Seek pop once and then push, in order, the entries
\* new has above the ones that stayed; pop on an empty slice panics first.
Store(m, s, new) ==
  LET old == View(m, s)
  IN  IF old = <<>> THEN Heap(m, s)
      ELSE PushAll(m, popH(s), SubSeq(new, Len(old), Len(new)))

\* Next() and Seek(n) on the Seq whose header is s
NextH(m, s) ==
  LET r == NextOp(View(m, s))
      w == Store(m, s, r.nodes)
  IN  [mem |-> w.mem, hdr |-> w.hdr, panic |-> r.panic]

SeekH(m, s, n) ==
  LET r == SeekOp(View(m, s), n)
      w == Store(m, s, r.nodes)
  IN  [mem |-> w.mem, hdr |-> w.hdr, panic |-> r.panic]

\* ------------------------------------------------ tree positions (for the claims)
IsPrefix(a, b) == Len(a) <= Len(b) /\ SubSeq(b, 1, Len(a)) = a

\* a comes strictly before b in the pre-order of the key tree
PreLess(a, b) ==
  \/ a # b /\ IsPrefix(a, b)
  \/ \E i \in 1..Len(a) :
       /\ i <= Len(b)
       /\ SubSeq(a, 1, i - 1) = SubSeq(b, 1, i - 1)
       /\ a[i] = left
       /\ b[i] = right

\* What lies between node k (the current node when the call began) and its
\* descendant t in pre-order: every node on the path from k down to t's
\* parent, and the whole left subtree wherever the path turns right.  An item
\* is one node, or (whole) a node with all its descendants; cur marks the node
\* that was the current one, whose key Key() returned.
Item(root, whole, cur) == [root |-> root, whole |-> whole, cur |-> cur]

ConsumedBetween(k, t) ==
  IF ~IsPrefix(k, t) THEN {Item(k, TRUE, TRUE)}
  ELSE UNION { {Item(SubSeq(t, 1, j), FALSE, j = Len(k))}
                 \cup (IF t[j + 1] = right
                       THEN {Item(prf(left, SubSeq(t, 1, j)), TRUE, FALSE)}
                       ELSE {})
               : j \in Len(k)..(Len(t) - 1) }

NoItem == Item(<<>>, FALSE, FALSE)

\* ---------------------------------------------------------------------- state
VARIABLES
  seed,     \* the seed given to New
  maxKeys,  \* the maxKeys given to New (a bit string)
  nodes,    \* Seq.nodes
  last,     \* the last call: its name, argument, panic and returned key
  pre,      \* Seq.nodes before the last call
  gone,     \* history: one of the tree nodes the sequence has moved past, any
            \* one of them (every choice is explored), or NoItem
  nexts,    \* history: Next() calls made since New, -1 once Seek was called
  ops,      \* history: calls counted by the wide-number specification
  mem,      \* the backing arrays allocated so far (storage specification)
  sa,       \* the slice header of the Seq a that New returned
  st,       \* the slice header of a second Seq t, from a second New with
            \* the same arguments, given the same calls as a
  sb,       \* the slice header of b after b := a, NoSlice before
  bval,     \* history: b.nodes as read when b := a was executed
  tpanic    \* the panic of t's last call

store == <<mem, sa, st, sb, bval, tpanic>>

vars == <<seed, maxKeys, nodes, last, pre, gone, nexts, ops, store>>

Call(op, n, panic, ret) == [op |-> op, n |-> n, panic |-> panic, ret |-> ret]

Fresh == NewNodes(seed, maxKeys)

InitWith(keys) ==
  /\ seed \in Seeds
  /\ maxKeys \in keys
  /\ nodes = NewNodes(seed, maxKeys)
  /\ last = Call("New", <<>>, NoPanic, <<>>)
  /\ pre = <<>>
  /\ gone = NoItem
  /\ nexts = 0
  /\ ops = 0

\* Mutant: Key() reads the top entry with pop(), on a pointer receiver.
KeyCallPops ==
  LET r == KeyOp(nodes)
  IN  /\ last' = Call("Key", <<>>, r.panic, r.ret)
      /\ pre' = nodes
      /\ nodes' = IF nodes = <<>> THEN nodes ELSE Rest(nodes)
      /\ UNCHANGED <<seed, maxKeys, gone, nexts>>

\* seq.Key()
KeyCall ==
  LET r == KeyOp(nodes)
  IN  /\ last' = Call("Key", <<>>, r.panic, r.ret)
      /\ pre' = nodes
      /\ UNCHANGED <<seed, maxKeys, nodes, gone, nexts>>

\* seq.Next()
NextCall ==
  LET r == NextOp(nodes)
  IN  /\ nodes' = r.nodes
      /\ last' = Call("Next", <<>>, r.panic, <<>>)
      /\ pre' = nodes
      /\ IF r.panic = NoPanic
         THEN /\ gone' \in {gone} \cup
                   (IF nodes = <<>> THEN {} ELSE {Item(Top(nodes).k, FALSE, TRUE)})
              /\ nexts' = IF nexts >= 0 THEN nexts + 1 ELSE nexts
         ELSE UNCHANGED <<gone, nexts>>
      /\ UNCHANGED <<seed, maxKeys>>

\* seq.Seek(n); a recovered panic leaves s.nodes as the panic found it
SeekCall(n) ==
  LET r == SeekOp(nodes, n)
  IN  /\ nodes' = r.nodes
      /\ last' = Call("Seek", n, r.panic, <<>>)
      /\ pre' = nodes
      /\ nexts' = -1
      /\ gone' \in {gone} \cup
           (CASE r.panic = IndexPanic -> {}
              [] r.panic = Exhausted -> {Item(Top(nodes).k, TRUE, TRUE)}
              [] OTHER -> IF r.nodes = <<>> THEN {}
                          ELSE ConsumedBetween(Top(nodes).k, Top(r.nodes).k))
      /\ UNCHANGED <<seed, maxKeys>>

\* ------------------------------------------------- small trees, any call order
SmallKeys == {Nat2Bits(i) : i \in 1..MaxMaxKeys}

\* arguments of Seek: up to 2 * maxKeys
SeekArgs == {Nat2Bits(i) : i \in 0..(2 * MaxMaxKeys)}

\* the specifications that follow the stack as a value leave storage out
Untracked ==
  /\ mem = <<>>
  /\ sa = NoSlice
  /\ st = NoSlice
  /\ sb = NoSlice
  /\ bval = <<>>
  /\ tpanic = NoPanic

Init == InitWith(SmallKeys) /\ Untracked

Key == KeyCall /\ UNCHANGED <<ops, store>>

Next == NextCall /\ UNCHANGED <<ops, store>>

Seek == \E n \in SeekArgs : SeekCall(n) /\ UNCHANGED <<ops, store>>

Step == Key \/ Next \/ Seek

Spec == Init /\ [][Step]_vars

\* --------------------------------------- wide numbers, a few calls after New
Ones(m) == [i \in 1..m |-> 1]

\* maxKeys = 2^e - 1, 2^e, 2^e + 1 at and above the float64 mantissa width
BigKeys ==
  UNION { {Ones(e), Shl1(e), BigInc(Shl1(e))}
          : e \in MantissaBits..(MantissaBits + MaxExtraBits) }

\* arguments of Seek around the declared capacity, and 2 * maxKeys
BigArgs == {<<>>, <<1>>, BigDec(maxKeys), maxKeys, <<0>> \o maxKeys}

InitBig == InitWith(BigKeys) /\ Untracked

Counted == ops < MaxBigOps /\ ops' = ops + 1 /\ UNCHANGED store

BigKey == KeyCall /\ Counted

BigNext == NextCall /\ Counted

BigSeek == \E n \in BigArgs : SeekCall(n) /\ Counted

StepBig == BigKey \/ BigNext \/ BigSeek

SpecBig == InitBig /\ [][StepBig]_vars

\* ------------------------------- storage: a, a copy of a, and a second New
MemKeys == {Nat2Bits(i) : i \in 1..MaxMemKeys}

MemArgs == {Nat2Bits(i) : i \in 0..(2 * MaxMemKeys)}

\* a := New(alg, seed, maxKeys); t := New(alg, seed, maxKeys)
InitMem ==
  /\ InitWith(MemKeys)
  /\ LET a == NewH(<<>>, seed, maxKeys)
         t == NewH(a.mem, seed, maxKeys)
     IN  /\ mem = t.mem
         /\ sa = a.hdr
         /\ st = t.hdr
  /\ sb = NoSlice
  /\ bval = <<>>
  /\ tpanic = NoPanic

\* a.Next(); t.Next()
MemNext ==
  /\ NextCall
  /\ LET a == NextH(mem, sa)
         t == NextH(a.mem, st)
     IN  /\ mem' = t.mem
         /\ sa' = a.hdr
         /\ st' = t.hdr
         /\ tpanic' = t.panic
  /\ UNCHANGED <<sb, bval, ops>>

\* a.Seek(n); t.Seek(n)
MemSeek ==
  \E n \in MemArgs :
    /\ SeekCall(n)
    /\ LET a == SeekH(mem, sa, n)
           t == SeekH(a.mem, st, n)
       IN  /\ mem' = t.mem
           /\ sa' = a.hdr
           /\ st' = t.hdr
           /\ tpanic' = t.panic
    /\ UNCHANGED <<sb, bval, ops>>

\* b := a: the struct is copied, header and all; the array is not
MemCopy ==
  /\ sb' = sa
  /\ bval' = View(mem, sa)
  /\ UNCHANGED <<seed, maxKeys, nodes, last, pre, gone, nexts, ops,
                 mem, sa, st, tpanic>>

StepMem == MemNext \/ MemSeek \/ MemCopy

SpecMem == InitMem /\ [][StepMem]_vars

\* ================================================================== claims
Pow2(h) == 2 ^ h

\* the least h with 2^h >= m, for m >= 1: ceil(log2(m))
CeilLog2Nat(m) ==
  CHOOSE h \in 0..30 : Pow2(h) >= m /\ (h = 0 \/ Pow2(h - 1) < m)

\* n sequential Next() calls from stk; the first panic ends them
RECURSIVE NextN(_, _)
NextN(stk, n) ==
  IF n = 0 THEN [nodes |-> stk, panic |-> NoPanic]
  ELSE LET r == NextOp(stk)
       IN  IF r.panic # NoPanic THEN r ELSE NextN(r.nodes, n - 1)

SeekFromFresh == last.op = "Seek" /\ pre = Fresh

C2_SeekEqualsNextAnywhere ==
  (last.op = "Seek" /\ pre # <<>>) =>
    LET r == NextN(pre, Bits2Nat(last.n))
    IN  (r.panic = NoPanic /\ r.nodes # <<>>) => nodes = r.nodes

\* C3: forward secrecy.  No node the sequence has moved past (a node that was
\* current, a node on the path of a Seek, a node of a subtree a Seek skipped)
\* is an entry of the stack or a descendant of one, so no derivation from
\* the stack gives its secret or its key.
Derivable(node) == \E i \in DOMAIN nodes : IsPrefix(nodes[i].k, node)

C3_ForwardSecrecy ==
  gone # NoItem =>
    /\ ~Derivable(gone.root)
    /\ ~Derivable(prf("key", gone.root))
    /\ gone.whole => \A i \in DOMAIN nodes : ~IsPrefix(gone.root, nodes[i].k)

\* a Seek has skipped a whole left subtree and pending entries remain
C3_Witness ==
  /\ gone.whole
  /\ ~gone.cur
  /\ last.op = "Seek"
  /\ last.panic = NoPanic
  /\ Len(nodes) >= 2

\* C4: from an Active state with top height h, Seek(n) succeeds for
\* n <= 2^h - 2 and panics "keyspace exhausted" for n >= 2^h - 1; New gives
\* the root the height H = ceil(log2(maxKeys + 1)); Seek(2 * maxKeys) on a
\* fresh sequence panics.
\* (n <= 2^h - 2 is n + 1 < 2^h; H = ceil(log2(maxKeys + 1)) is the H with
\* 2^(H-1) <= maxKeys < 2^H.)
C4_SeekBoundary ==
  /\ (last.op = "Seek" /\ pre # <<>>) =>
       IF BigLess(BigInc(last.n), Shl1(Top(pre).h))
       THEN last.panic = NoPanic
       ELSE last.panic = Exhausted
  /\ last.op = "New" =>
       /\ Len(nodes) = 1
       /\ BigLess(maxKeys, Shl1(Top(nodes).h))
       /\ ~BigLess(maxKeys, Shl1(Top(nodes).h - 1))
  /\ (SeekFromFresh /\ last.n = <<0>> \o maxKeys) =>
       last.panic = Exhausted

\* C5: a Seek that panics "keyspace exhausted" leaves the stack as it was
\* before the call or empty.
C5_FailedSeekAtomic ==
  (last.op = "Seek" /\ last.panic = Exhausted) => (nodes = pre \/ nodes = <<>>)

\* C6: a fresh sequence addresses maxKeys keys: Seek(k) for k <= maxKeys - 1
\* does not fail and leaves a current node, and so do k Next() calls.
C6_CapacityHonoured ==
  /\ (SeekFromFresh /\ BigLess(last.n, maxKeys)) =>
       (last.panic = NoPanic /\ nodes # <<>>)
  /\ (nexts >= 0 /\ BigLess(Nat2Bits(nexts), maxKeys)) =>
       /\ nodes # <<>>
       /\ last.op = "Next" => last.panic = NoPanic

\* C7 as stated: on a fresh sequence Seek(n) panics "keyspace exhausted" for
\* every n > maxKeys, and no more than maxKeys Next() calls succeed.
C7_ExhaustedBeyondMaxKeys ==
  /\ (SeekFromFresh /\ BigLess(maxKeys, last.n)) => last.panic = Exhausted
  /\ nexts <= Bits2Nat(maxKeys)

\* C7 amended: with H = ceil(log2(maxKeys + 1)), on a fresh sequence Seek(n)
\* panics "keyspace exhausted" for every n >= 2^H - 1, which covers every
\* n >= 2 * maxKeys, and no more than 2^H - 1 Next() calls succeed.
C7_ExhaustedBeyondTree ==
  LET H == CeilLog2Nat(Bits2Nat(maxKeys) + 1)
  IN  /\ (SeekFromFresh /\ Bits2Nat(last.n) >= Pow2(H) - 1) =>
           last.panic = Exhausted
      /\ (SeekFromFresh /\ Bits2Nat(last.n) >= 2 * Bits2Nat(maxKeys)) =>
           last.panic = Exhausted
      /\ nexts <= Pow2(H) - 1

\* maxKeys = 4: the first argument Seek refuses on a fresh sequence is 7
C7_Witness ==
  /\ SeekFromFresh
  /\ maxKeys = Nat2Bits(4)
  /\ last.n = Nat2Bits(7)
  /\ last.panic = Exhausted

\* C8: Next() on an empty stack fails with "keyspace exhausted".
C8_NextOnEmptyExhausted ==
  (last.op = "Next" /\ pre = <<>>) => last.panic = Exhausted

\* C9: once the stack is empty every call (Next, Seek(n) for any n, Key)
\* panics and leaves it empty.
C9_ExhaustedTerminal ==
  (last.op # "New" /\ pre = <<>>) => (nodes = <<>> /\ last.panic # NoPanic)

\* Seek(0) called on an empty stack
C9_Witness ==
  /\ pre = <<>>
  /\ last.op = "Seek"
  /\ last.n = <<>>

\* C10: a successful Next() or Seek(n > 0) that leaves a current node leaves
\* one strictly later in pre-order, and the key of a position the sequence
\* has left is never the current key again.
C10_Irreversible ==
  /\ ( /\ last.op = "Next" \/ (last.op = "Seek" /\ last.n # <<>>)
       /\ last.panic = NoPanic
       /\ nodes # <<>> ) => PreLess(Top(pre).k, Top(nodes).k)
  /\ (gone.cur /\ nodes # <<>>) => KeyOp(nodes).ret # prf("key", gone.root)

\* a Seek(n > 0) made after an older position was left
C10_Witness ==
  /\ gone.cur
  /\ nodes # <<>>
  /\ last.op = "Seek"
  /\ last.n # <<>>
  /\ last.panic = NoPanic
  /\ gone.root # Top(pre).k

\* C11: the stack never holds more than H = ceil(log2(maxKeys + 1)) entries,
\* whatever calls were made (successful or not).
C11_DepthBound == Len(nodes) <= CeilLog2Nat(Bits2Nat(maxKeys) + 1)

\* maxKeys = 8, H = 4: Next() calls have walked down to the leftmost leaf
C11_Witness ==
  /\ maxKeys = Nat2Bits(8)
  /\ last.op = "Next"
  /\ last.panic = NoPanic
  /\ Len(nodes) = 4
  /\ Top(nodes).h = 1

\* C12: the stack entries are roots of pairwise disjoint subtrees of the key
\* tree (each at the height its depth in the tree gives it), none of them
\* holding a node the sequence has moved past; from the bottom of the stack
\* to its top they go from the rightmost to the leftmost, every one after
\* all consumed nodes in pre-order, and the top entry is the node Key()
\* derives the current key from.
C12_Frontier ==
  /\ \A i, j \in DOMAIN nodes :
       i # j => ~IsPrefix(nodes[i].k, nodes[j].k)
  /\ \A i, j \in DOMAIN nodes :
       i < j => PreLess(nodes[j].k, nodes[i].k)
  /\ \A i \in DOMAIN nodes :
       /\ nodes[i].h >= 1
       /\ (Len(nodes[i].k) - Len(Fresh[1].k)) + nodes[i].h = Fresh[1].h
  /\ gone # NoItem =>
       \A i \in DOMAIN nodes :
         /\ PreLess(gone.root, nodes[i].k)
         /\ ~IsPrefix(nodes[i].k, gone.root)
         /\ gone.whole => ~IsPrefix(gone.root, nodes[i].k)
  /\ nodes # <<>> =>
       /\ KeyOp(nodes) = [ret |-> prf("key", Top(nodes).k), panic |-> NoPanic]
       /\ \A i \in DOMAIN nodes :
            i # Len(nodes) => PreLess(Top(nodes).k, nodes[i].k)

\* three pending subtrees after a Seek, and a consumed node behind them
C12_Witness ==
  /\ Len(nodes) >= 3
  /\ last.op = "Seek"
  /\ last.panic = NoPanic
  /\ last.n # <<>>
  /\ gone # NoItem

\* C13: Key() called on a non-empty stack does not fail, leaves the stack as
\* it was and returns the "key" derivation of the top entry's secret; a Key()
\* that directly follows a Key() returns the same value.
C13_KeyPure ==
  [][ (nodes # <<>> /\ last'.op = "Key") =>
        /\ nodes' = nodes
        /\ pre' = nodes
        /\ last'.panic = NoPanic
        /\ last'.ret = prf("key", Top(nodes).k)
        /\ last.op = "Key" => last'.ret = last.ret ]_vars

\* Key() read below the root, with further entries pending
C13_Witness ==
  /\ last.op = "Key"
  /\ last.panic = NoPanic
  /\ nodes = pre
  /\ Len(nodes) >= 2
  /\ last.ret = prf("key", Top(nodes).k)

\* C15: Seek(0) on a non-empty stack does not fail and leaves every entry,
\* secret and height where it was.
C15_SeekZeroNoOp ==
  (last.op = "Seek" /\ last.n = <<>> /\ pre # <<>>) =>
    (last.panic = NoPanic /\ nodes = pre)

\* Seek(0) called with pending entries below a leaf
C15_Witness ==
  /\ last.op = "Seek"
  /\ last.n = <<>>
  /\ Len(pre) >= 3
  /\ Top(pre).h = 1
  /\ nodes = pre

\* C16: Next() on a non-empty stack with top entry (s, h) does not fail; for
\* h > 1 it leaves the entries below the top, then (right(s), h - 1), then
\* (left(s), h - 1) on top; for h = 1 it leaves the entries below the top.
C16_NextStep ==
  (last.op = "Next" /\ pre # <<>>) =>
    LET s == Top(pre).k
        h == Top(pre).h
        below == SubSeq(pre, 1, Len(pre) - 1)
    IN  /\ last.panic = NoPanic
        /\ h >= 1
        /\ h > 1 => nodes = below \o <<[k |-> Append(s, "right"), h |-> h - 1],
                                       [k |-> Append(s, "left"), h |-> h - 1]>>
        /\ h = 1 => nodes = below

\* Next() has split an inner node that had entries below it
C16_Witness ==
  /\ last.op = "Next"
  /\ Len(pre) >= 2
  /\ Top(pre).h = 2
  /\ Len(nodes) = Len(pre) + 1
  /\ Top(nodes).k = Append(Top(pre).k, "left")

\* From the loop test in state s, Seek is over within c more executions of
\* the loop body: each lowers h by one, lengthens the walked path by one
\* derivation and pushes at most one more, and the call ends in the final
\* push or in the "keyspace exhausted" panic.
RECURSIVE EndsWithin(_, _)
EndsWithin(s, c) ==
  LET t == SeekStep(s)
  IN  IF BigIsZero(s.n)
      THEN t.done /\ t.panic = NoPanic /\ t.stk = push(s.stk, s.k, s.h)
      ELSE /\ c > 0
           /\ t.h = s.h - 1
           /\ Len(t.stk) <= Len(s.stk) + 1
           /\ IF t.done THEN t.panic = Exhausted /\ t.stk = s.stk
              ELSE Len(t.k) = Len(s.k) + 1 /\ EndsWithin(t, c - 1)

\* C17: Seek(n) on a non-empty stack whose top has height h >= 1 is over
\* after at most h executions of the loop body, h falling by one in each,
\* and returns after the final push or panics "keyspace exhausted".
C17_SeekTerminates ==
  (last.op = "Seek" /\ pre # <<>>) =>
    /\ Top(pre).h >= 1
    /\ EndsWithin(SeekState(Rest(pre), Top(pre).k, Top(pre).h, last.n,
                            NoPanic, FALSE), Top(pre).h)
    /\ last.panic \in {NoPanic, Exhausted}

\* a Seek that used all h = 4 executions of the loop body and panicked
C17_Witness ==
  /\ last.op = "Seek"
  /\ pre # <<>>
  /\ Top(pre).h = 4
  /\ last.panic = Exhausted
  /\ ~EndsWithin(SeekState(Rest(pre), Top(pre).k, Top(pre).h, last.n,
                           NoPanic, FALSE), 3)

\* a + b on bit strings: bit i of the sum is a[i] + b[i] + the carry into i,
\* and a carry enters i when some lower position generates one (both bits
\* set) that every position between passes on (one bit set).
BigAdd(a, b) ==
  LET m == (IF Len(a) > Len(b) THEN Len(a) ELSE Len(b)) + 1
      bit(x, i) == IF i <= Len(x) THEN x[i] ELSE 0
      carry(i) == \E j \in 1..(i - 1) :
                    /\ bit(a, j) + bit(b, j) = 2
                    /\ \A l \in (j + 1)..(i - 1) : bit(a, l) + bit(b, l) >= 1
  IN  Norm([i \in 1..m |->
             (bit(a, i) + bit(b, i) + (IF carry(i) THEN 1 ELSE 0)) % 2])

\* the sum over the entries of a stack of 2^h - 1, a bit string
RECURSIVE Remaining(_)
Remaining(stk) ==
  IF stk = <<>> THEN <<>>
  ELSE CHOOSE r \in {BigAdd(x, Ones(Top(stk).h)) : x \in {Remaining(Rest(stk))}}
         : TRUE

\* C18: every entry has h >= 1; the keys still to be had number
\* Remaining(nodes), the sum over the entries of 2^h - 1: none exactly when
\* the stack is empty, 2^H - 1 after New for the H with
\* 2^(H-1) <= maxKeys < 2^H, one fewer after each successful Next() and n
\* fewer after each successful Seek(n).
C18_Accounting ==
  /\ \A i \in DOMAIN nodes : nodes[i].h >= 1
  /\ last.op = "New" =>
       /\ BigLess(maxKeys, BigInc(Remaining(nodes)))
       /\ ~BigLess(maxKeys, Shl1(Top(nodes).h - 1))
  /\ BigIsZero(Remaining(nodes)) <=> nodes = <<>>
  /\ (last.op = "Next" /\ last.panic = NoPanic) =>
       Remaining(pre) = BigInc(Remaining(nodes))
  /\ (last.op = "Seek" /\ last.panic = NoPanic) =>
       Remaining(pre) = BigAdd(Remaining(nodes), last.n)

\* C14: a and t, made by two calls of New with the same seed and maxKeys
\* and given the same calls, hold the same stack after every call, return
\* the same Key() and fail in the same call with the same panic; both agree
\* with the stack followed as a value.
C14_Determinism ==
  /\ View(mem, sa) = View(mem, st)
  /\ KeyOp(View(mem, sa)) = KeyOp(View(mem, st))
  /\ View(mem, sa) = nodes
  /\ tpanic = last.panic

\* both have failed in the same Seek, which left them entries, while a copy
\* of a shares a's first array
C14_Witness ==
  /\ last.op = "Seek"
  /\ tpanic = Exhausted
  /\ View(mem, st) # <<>>
  /\ sa.arr # st.arr
  /\ sb # NoSlice

\* C19: once b := a was executed, calls on a leave b.nodes, read through
\* b's own header, and the key b.Key() returns as they were at the copy.
C19_CopyUnaffected ==
  sb # NoSlice =>
    /\ View(mem, sb) = bval
    /\ KeyOp(View(mem, sb)) = KeyOp(bval)

====
